---- MODULE Spec2Model ----
(***************************************************************************)
(* Daycue Telegram bot (src/bot.py): the onboarding conversation, the      *)
(* command and menu handlers, the users table and the notification loop,   *)
(* as a state machine.                                                     *)
(*                                                                         *)
(* A text is a sequence of one-character strings, so that the regular      *)
(* expressions, strip(), lower(), int() and the date and time parsers are  *)
(* computed character by character as the code computes them.  A stored    *)
(* DATE is a triple <<year, month, day>>.                                  *)
(***************************************************************************)
EXTENDS Integers, Sequences, FiniteSets, TLC

VARIABLES
    conv,        \* ConversationHandler's state per chat (END: no conversation)
    user_data,   \* context.user_data per chat: a dict, its DOMAIN the keys set
    users,       \* table users: chat_id -> row, its DOMAIN the chats with a row
    period_log,  \* table period_log: per chat the row inserted last
    last,        \* the update handled last: its chat, the message sent, raised
    lastPrompt,  \* per chat the step (1..6) of the onboarding prompt sent last
    accepted,    \* history: per chat the texts its onboarding pass has accepted
    npc,         \* notification_loop: where the task stands
    rows,        \* notification_loop: the rows fetched by the current tick
    now,         \* notification_loop: now_utc of the tick, a value of clock
    fetched,     \* notification_loop: the profile fetched for the row at hand
    sent_today,  \* notification_loop: chat_id -> local date of the last ping
    clock,       \* wall clock: <<day, minute of the day's ClockTimes>>
    pings,       \* history: per chat the daily pings, each <<local date, sent>>
    calc,        \* render_today: the profile and date it renders, and its locals
    runs,        \* the number of times the process has been started
    held         \* a settings command past its db_fetch_user: the profile it holds

vars == <<conv, user_data, users, period_log, last, lastPrompt, accepted,
          npc, rows, now, fetched, sent_today, clock, pings, calc, runs, held>>

botVars == <<conv, user_data, users, period_log, last, lastPrompt, accepted>>
loopVars == <<npc, rows, now, fetched, sent_today, pings>>
restVars == <<calc, runs, held>>

----------------------------------------------------------------------------
(* Characters and texts                                                    *)

DigitChars == <<"0", "1", "2", "3", "4", "5", "6", "7", "8", "9">>

IsDigitCh(ch) == \E i \in 1..10 : DigitChars[i] = ch

DigitVal(ch) == (CHOOSE i \in 1..10 : DigitChars[i] = ch) - 1

\* str.isdigit(): non-empty and every character a digit
isdigit(t) == Len(t) > 0 /\ \A i \in 1..Len(t) : IsDigitCh(t[i])

\* int() of a string of digits
RECURSIVE int(_)
int(t) ==
    IF Len(t) = 0 THEN 0
    ELSE 10 * int(SubSeq(t, 1, Len(t) - 1)) + DigitVal(t[Len(t)])

\* str.strip(): leading and trailing blanks removed
RECURSIVE lstrip(_)
lstrip(t) == IF Len(t) > 0 /\ t[1] = " " THEN lstrip(Tail(t)) ELSE t

RECURSIVE rstrip(_)
rstrip(t) ==
    IF Len(t) > 0 /\ t[Len(t)] = " " THEN rstrip(SubSeq(t, 1, Len(t) - 1)) ELSE t

_norm(s) == rstrip(lstrip(s))

LowerCh(ch) ==
    CASE ch = "A" -> "a"
      [] ch = "F" -> "f"
      [] ch = "S" -> "s"
      [] ch = "T" -> "t"
      [] OTHER -> ch

\* str.lower()
lower(t) == [i \in 1..Len(t) |-> LowerCh(t[i])]

\* Python's None, as a value no text equals
None == <<"None">>

\* SQL NULL in a DATE column
NULL == <<0, 0, 0>>

BTN_TODAY == <<"U+1F4CD", " ", "T", "o", "d", "a", "y">>
BTN_FORECAST == <<"U+1F52E", " ", "F", "o", "r", "e", "c", "a", "s", "t">>
BTN_SETTINGS == <<"U+2699", "U+FE0F", " ", "S", "e", "t", "t", "i", "n", "g", "s">>
BTN_ABOUT == <<"U+1F4DA", " ", "A", "b", "o", "u", "t", " ", "p", "h", "a", "s", "e">>

MENU_TEXTS == {BTN_TODAY, BTN_FORECAST, BTN_SETTINGS, BTN_ABOUT}

_is_menu_press(text) == _norm(text) \in MENU_TEXTS

\* DATE_RE = ^\d{4}-\d{2}-\d{2}$
DATE_RE(t) ==
    /\ Len(t) = 10
    /\ \A i \in {1, 2, 3, 4, 6, 7, 9, 10} : IsDigitCh(t[i])
    /\ t[5] = "-"
    /\ t[8] = "-"

\* TIME_RE = ^\d{2}:\d{2}$
TIME_RE(t) ==
    /\ Len(t) = 5
    /\ \A i \in {1, 2, 4, 5} : IsDigitCh(t[i])
    /\ t[3] = ":"

IsLeap(y) == (y % 4 = 0) /\ ((y % 100 # 0) \/ (y % 400 = 0))

DaysInMonth(y, m) ==
    IF m = 2 THEN (IF IsLeap(y) THEN 29 ELSE 28)
    ELSE IF m \in {4, 6, 9, 11} THEN 30 ELSE 31

\* the fields of a text that matches DATE_RE
DateFields(t) ==
    <<int(SubSeq(t, 1, 4)), int(SubSeq(t, 6, 7)), int(SubSeq(t, 9, 10))>>

\* dt.date.fromisoformat(t) raises ValueError unless the date exists
fromisoformat_raises(t) ==
    LET f == DateFields(t)
    IN  ~ (/\ f[1] >= 1
           /\ f[2] >= 1 /\ f[2] <= 12
           /\ f[3] >= 1 /\ f[3] <= DaysInMonth(f[1], f[2]))

fromisoformat(t) == DateFields(t)

\* date comparison (e < s)
DateLess(a, b) ==
    \/ a[1] < b[1]
    \/ a[1] = b[1] /\ a[2] < b[2]
    \/ a[1] = b[1] /\ a[2] = b[2] /\ a[3] < b[3]

\* n written with w digits, zero padded
RECURSIVE Pad(_, _)
Pad(n, w) ==
    IF w = 0 THEN <<>> ELSE Pad(n \div 10, w - 1) \o <<DigitChars[(n % 10) + 1]>>

\* dt.date.isoformat()
isoformat(d) == Pad(d[1], 4) \o <<"-">> \o Pad(d[2], 2) \o <<"-">> \o Pad(d[3], 2)

\* _parse_time_hhmm(s): dt.time(int(h), int(m)) raises ValueError out of range
_parse_time_hhmm_raises(s) ==
    LET h == int(SubSeq(s, 1, 2))
        m == int(SubSeq(s, 4, 5))
    IN  ~ (h >= 0 /\ h <= 23 /\ m >= 0 /\ m <= 59)

----------------------------------------------------------------------------
(* Data model, store and messages                                          *)

Chats == {1, 2}

\* ConversationHandler.END; also the state of a chat with no conversation
END == -1

O_NICK == 0
O_DOB == 1
O_START == 2
O_END == 3
O_CYCLE == 4
O_TIME == 5

\* a handler that returns None leaves the conversation state as it is
NoRet == -2

\* _default_tz(): TZ_DEFAULT or "Europe/Stockholm"
_default_tz == "Europe/Stockholm"

\* the outbound or store call that fails while an update is handled
Faults == {"none", "fetch", "upsert", "log", "send"}

\* dict[key] = value
Put(d, k, v) == [x \in (DOMAIN d) \cup {k} |-> IF x = k THEN v ELSE d[x]]

\* dict.get(key): None when the key is missing
Get(d, k) == IF k \in DOMAIN d THEN d[k] ELSE None

\* a message of the bot: its first words and the onboarding step it prompts
\* for (0: it holds no onboarding prompt)
Msg(text, step) == [text |-> text, step |-> step]

NoMsg == Msg("", 0)

\* no settings command between its fetch and its upsert
NoHeld == [chat_id |-> 0]

\* Python's None where a UserProfile is expected
NoProfile == [chat_id |-> 0]

\* UserProfile(...)
UserProfile(chat_id, partner_name, partner_dob, period_start, period_end, cycle_length, notify_time, tz, paused) ==
    [chat_id |-> chat_id, partner_name |-> partner_name,
     partner_dob |-> partner_dob, period_start |-> period_start,
     period_end |-> period_end, cycle_length |-> cycle_length,
     notify_time |-> notify_time, tz |-> tz, paused |-> paused]

\* db_fetch_user: the row of chat_id as a UserProfile, or None (here NoProfile:
\* a record, as a profile is)
db_fetch_user(us, chat_id) ==
    IF chat_id \notin DOMAIN us THEN NoProfile
    ELSE LET row == us[chat_id]
         IN  UserProfile(chat_id, row.partner_name,
                 IF row.partner_dob # NULL THEN isoformat(row.partner_dob) ELSE None,
                 isoformat(row.period_start),
                 IF row.period_end # NULL THEN isoformat(row.period_end) ELSE None,
                 row.cycle_length, row.notify_time, row.tz, row.paused)

\* the row db_upsert_user writes for profile p
RowOf(p) ==
    [partner_name |-> p.partner_name,
     partner_dob |-> IF p.partner_dob # None THEN fromisoformat(p.partner_dob) ELSE NULL,
     period_start |-> fromisoformat(p.period_start),
     period_end |-> IF p.period_end # None THEN fromisoformat(p.period_end) ELSE NULL,
     cycle_length |-> p.cycle_length,
     notify_time |-> p.notify_time,
     tz |-> p.tz,
     paused |-> p.paused]

\* db_upsert_user: INSERT ... ON CONFLICT(chat_id) DO UPDATE
db_upsert_user(us, p) ==
    [x \in (DOMAIN us) \cup {p.chat_id} |-> IF x = p.chat_id THEN RowOf(p) ELSE us[x]]

\* db_log_period: INSERT INTO period_log
db_log_period(pl, chat_id, start_date, end_date) ==
    [x \in (DOMAIN pl) \cup {chat_id} |->
        IF x = chat_id
        THEN [period_start |-> fromisoformat(start_date),
              period_end |-> IF end_date # None THEN fromisoformat(end_date) ELSE NULL]
        ELSE pl[x]]

----------------------------------------------------------------------------
(* What a handler did: the state it returns, the dict and tables it leaves, *)
(* the message it sent, whether it raised, and the fault that hit it.       *)

Result(ret, ud, us, pl, reply, raised, fault) ==
    [ret |-> ret, ud |-> ud, users |-> us, plog |-> pl,
     reply |-> reply, raised |-> raised, fault |-> fault]

\* the handler raised: the exception leaves the handler, nothing is returned
Raised(ud, us, pl, fault) == Result(NoRet, ud, us, pl, NoMsg, TRUE, fault)

\* _send(update, context, text) as the handler's last call, then return ret
\* (reply_text raises when the outbound call fails)
_send(f, msg, ret, ud, us, pl) ==
    IF f = "send" THEN Raised(ud, us, pl, "send")
    ELSE Result(ret, ud, us, pl, msg, FALSE, "none")

\* The update is over.  inConv: the handler ran inside the ConversationHandler,
\* which stores the state returned (END drops the conversation) unless the
\* handler raised or returned None; other handlers' return value is dropped.
\* t: the text a state handler was given, None for a command.  accepted is
\* history: a state handler that moves the conversation on has accepted t;
\* a command that sets the state (/start, /cancel) begins or ends a pass.
Handled(c, t, res, inConv) ==
    \E r \in {res} :
    /\ conv' = IF inConv /\ ~r.raised /\ r.ret # NoRet
               THEN [conv EXCEPT ![c] = r.ret] ELSE conv
    /\ user_data' = [user_data EXCEPT ![c] = r.ud]
    /\ users' = r.users
    /\ period_log' = r.plog
    /\ last' = [chat |-> c, reply |-> r.reply, raised |-> r.raised]
    /\ lastPrompt' = IF r.reply.step # 0
                     THEN [lastPrompt EXCEPT ![c] = r.reply.step] ELSE lastPrompt
    /\ accepted' = IF ~inConv \/ r.raised \/ r.ret = NoRet \/ r.ret = conv[c] THEN accepted
                   ELSE IF t = None THEN [accepted EXCEPT ![c] = <<>>]
                   ELSE [accepted EXCEPT ![c] = Append(@, t)]
    /\ UNCHANGED <<loopVars, clock, restVars>>

----------------------------------------------------------------------------
(* Onboarding: the six state handlers of the ConversationHandler, each     *)
(* registered for filters.TEXT & ~filters.COMMAND in its state.            *)

M_WELCOME == Msg("Welcome / Quick onboarding / 1/6 - Enter partner nickname", 1)
M_NICK_MENU == Msg("Finish onboarding first / 1/6 - Enter partner nickname", 1)
M_NICK_SHORT == Msg("Nickname too short. / 1/6 - Enter partner nickname", 1)
M_DOB == Msg("2/6 - Partner DOB (YYYY-MM-DD) or type skip", 2)
M_DOB_MENU == Msg("Finish onboarding first / 2/6 - Partner DOB", 2)
M_DOB_INVALID == Msg("Invalid date. / 2/6 - Partner DOB", 2)
M_START == Msg("3/6 - Last period START date (YYYY-MM-DD)", 3)
M_START_MENU == Msg("Finish onboarding first / 3/6 - Last period START date", 3)
M_START_INVALID == Msg("Invalid date. / 3/6 - Last period START date", 3)
M_END == Msg("4/6 - Last period END date (YYYY-MM-DD) or type skip", 4)
M_END_MENU == Msg("Finish onboarding first / 4/6 - Last period END date", 4)
M_END_INVALID == Msg("Invalid date. / 4/6 - Last period END date", 4)
M_END_BEFORE == Msg("End date can't be before start date. / 4/6 - Try again", 4)
M_CYCLE == Msg("5/6 - Cycle length in days (21-35). Example: 28", 5)
M_CYCLE_MENU == Msg("Finish onboarding first / 5/6 - Cycle length in days", 5)
M_CYCLE_INVALID == Msg("Enter a number 21-35. / 5/6 - Cycle length in days", 5)
M_TIME == Msg("6/6 - Daily notification time (HH:MM). Example: 09:00", 6)
M_TIME_MENU == Msg("Finish onboarding first / 6/6 - Daily notification time", 6)
M_TIME_INVALID == Msg("Time format should be HH:MM (24h). / 6/6 - Daily notification time", 6)
M_SAVED == Msg("Saved. + TODAY card", 0)
M_CANCELLED == Msg("Onboarding cancelled.", 0)

T_skip == <<"s", "k", "i", "p">>

\* start_onboarding: sends the welcome and returns O_NICK
start_onboarding(c, f) ==
    _send(f, M_WELCOME, O_NICK, user_data[c], users, period_log)

o_nick(c, t, f) ==
    /\ conv[c] = O_NICK
    /\ LET ud == user_data[c]
           nick == _norm(t)
       IN  Handled(c, t,
             IF _is_menu_press(t)
             THEN _send(f, M_NICK_MENU, O_NICK, ud, users, period_log)
             ELSE IF Len(nick) < 2
             THEN _send(f, M_NICK_SHORT, O_NICK, ud, users, period_log)
             ELSE _send(f, M_DOB, O_DOB, Put(ud, "partner_name", nick), users, period_log),
             TRUE)

o_dob(c, t, f) ==
    /\ conv[c] = O_DOB
    /\ LET ud == user_data[c]
           s == lower(_norm(t))
       IN  Handled(c, t,
             IF _is_menu_press(t)
             THEN _send(f, M_DOB_MENU, O_DOB, ud, users, period_log)
             ELSE IF s = T_skip
             THEN _send(f, M_START, O_START, Put(ud, "partner_dob", None), users, period_log)
             ELSE IF ~DATE_RE(s)
             THEN _send(f, M_DOB_INVALID, O_DOB, ud, users, period_log)
             ELSE IF fromisoformat_raises(s)
             THEN Raised(ud, users, period_log, "none")
             ELSE _send(f, M_START, O_START, Put(ud, "partner_dob", s), users, period_log),
             TRUE)

\* o_start that keeps a period_start user_data already holds (setdefault)
o_start_keeps_first(c, t, f) ==
    /\ conv[c] = O_START
    /\ LET ud == user_data[c]
           s == _norm(t)
       IN  Handled(c, t,
             IF _is_menu_press(t)
             THEN _send(f, M_START_MENU, O_START, ud, users, period_log)
             ELSE IF ~DATE_RE(s)
             THEN _send(f, M_START_INVALID, O_START, ud, users, period_log)
             ELSE IF fromisoformat_raises(s)
             THEN Raised(ud, users, period_log, "none")
             ELSE _send(f, M_END, O_END,
                        IF "period_start" \in DOMAIN ud THEN ud ELSE Put(ud, "period_start", s),
                        users, period_log),
             TRUE)

o_start(c, t, f) ==
    /\ conv[c] = O_START
    /\ LET ud == user_data[c]
           s == _norm(t)
       IN  Handled(c, t,
             IF _is_menu_press(t)
             THEN _send(f, M_START_MENU, O_START, ud, users, period_log)
             ELSE IF ~DATE_RE(s)
             THEN _send(f, M_START_INVALID, O_START, ud, users, period_log)
             ELSE IF fromisoformat_raises(s)
             THEN Raised(ud, users, period_log, "none")
             ELSE _send(f, M_END, O_END, Put(ud, "period_start", s), users, period_log),
             TRUE)

\* o_end without the test that the end is not before the start
o_end_unordered(c, t, f) ==
    /\ conv[c] = O_END
    /\ LET ud == user_data[c]
           s == lower(_norm(t))
       IN  Handled(c, t,
             IF _is_menu_press(t)
             THEN _send(f, M_END_MENU, O_END, ud, users, period_log)
             ELSE IF s = T_skip
             THEN _send(f, M_CYCLE, O_CYCLE, Put(ud, "period_end", None), users, period_log)
             ELSE IF ~DATE_RE(s)
             THEN _send(f, M_END_INVALID, O_END, ud, users, period_log)
             ELSE IF fromisoformat_raises(s)
             THEN Raised(ud, users, period_log, "none")
             ELSE _send(f, M_CYCLE, O_CYCLE, Put(ud, "period_end", s), users, period_log),
             TRUE)

o_end(c, t, f) ==
    /\ conv[c] = O_END
    /\ LET ud == user_data[c]
           s == lower(_norm(t))
       IN  Handled(c, t,
             IF _is_menu_press(t)
             THEN _send(f, M_END_MENU, O_END, ud, users, period_log)
             ELSE IF s = T_skip
             THEN _send(f, M_CYCLE, O_CYCLE, Put(ud, "period_end", None), users, period_log)
             ELSE IF ~DATE_RE(s)
             THEN _send(f, M_END_INVALID, O_END, ud, users, period_log)
             ELSE IF fromisoformat_raises(s)
             THEN Raised(ud, users, period_log, "none")
             ELSE IF "period_start" \notin DOMAIN ud
             THEN Raised(ud, users, period_log, "none")
             ELSE IF DateLess(fromisoformat(s), fromisoformat(ud.period_start))
             THEN _send(f, M_END_BEFORE, O_END, ud, users, period_log)
             ELSE _send(f, M_CYCLE, O_CYCLE, Put(ud, "period_end", s), users, period_log),
             TRUE)

o_cycle(c, t, f) ==
    /\ conv[c] = O_CYCLE
    /\ LET ud == user_data[c]
           s == _norm(t)
       IN  Handled(c, t,
             IF _is_menu_press(t)
             THEN _send(f, M_CYCLE_MENU, O_CYCLE, ud, users, period_log)
             ELSE IF ~isdigit(s)
             THEN _send(f, M_CYCLE_INVALID, O_CYCLE, ud, users, period_log)
             ELSE IF int(s) < 21 \/ int(s) > 35
             THEN _send(f, M_CYCLE_INVALID, O_CYCLE, ud, users, period_log)
             ELSE _send(f, M_TIME, O_TIME, Put(ud, "cycle_length", int(s)), users, period_log),
             TRUE)

\* o_time after the time was validated: the profile is built from user_data
\* (a missing key raises KeyError), upserted, the period is logged, user_data
\* is cleared and the TODAY card is sent; each call raises when it fails.
o_time_save(c, s, f) ==
    LET ud == user_data[c]
    IN  IF ~ ({"partner_name", "period_start", "cycle_length"} \subseteq DOMAIN ud)
        THEN Raised(ud, users, period_log, "none")
        ELSE LET profile == UserProfile(c, ud.partner_name, Get(ud, "partner_dob"),
                                ud.period_start, Get(ud, "period_end"),
                                ud.cycle_length, s, _default_tz, FALSE)
                 us1 == db_upsert_user(users, profile)
                 pl1 == db_log_period(period_log, c, profile.period_start, profile.period_end)
             IN  IF f = "upsert" THEN Raised(ud, users, period_log, "upsert")
                 ELSE IF f = "log" THEN Raised(ud, us1, period_log, "log")
                 ELSE _send(f, M_SAVED, END, <<>>, us1, pl1)

o_time(c, t, f) ==
    /\ conv[c] = O_TIME
    /\ LET ud == user_data[c]
           s == _norm(t)
       IN  Handled(c, t,
             IF _is_menu_press(t)
             THEN _send(f, M_TIME_MENU, O_TIME, ud, users, period_log)
             ELSE IF ~TIME_RE(s)
             THEN _send(f, M_TIME_INVALID, O_TIME, ud, users, period_log)
             ELSE IF _parse_time_hhmm_raises(s)
             THEN Raised(ud, users, period_log, "none")
             ELSE o_time_save(c, s, f),
             TRUE)

\* cancel without context.user_data.clear()
cancel_keeps_answers(c, f) ==
    /\ conv[c] # END
    /\ Handled(c, None, _send(f, M_CANCELLED, END, user_data[c], users, period_log), TRUE)

\* cancel: the ConversationHandler's fallback, CommandHandler("cancel")
cancel(c, f) ==
    /\ conv[c] # END
    /\ Handled(c, None, _send(f, M_CANCELLED, END, <<>>, users, period_log), TRUE)

----------------------------------------------------------------------------
(* Commands and menu.  A command is handled in whatever state the chat's   *)
(* conversation is: the ConversationHandler matches only /start (entry     *)
(* point, allow_reentry) and /cancel (fallback, inside a conversation).    *)
(* args: the words after the command, text.split()[1:].                    *)

M_TODAY == Msg("TODAY card", 0)
M_FORECAST == Msg("Forecast: next 7 days", 0)
M_ABOUT == Msg("About phase", 0)
M_SETTINGS == Msg("Settings", 0)
M_PAUSED == Msg("Paused daily pings. + TODAY card", 0)
M_RESUMED == Msg("Resumed daily pings. + TODAY card", 0)
M_UPDATED == Msg("Updated. + TODAY card", 0)
M_PERIOD_UPDATED == Msg("Period updated. + TODAY card", 0)
M_USAGE_TIME == Msg("Usage: /set_time HH:MM", 0)
M_USAGE_CYCLE == Msg("Usage: /set_cycle 21-35", 0)
M_CYCLE_RANGE == Msg("Cycle length should be 21-35.", 0)
M_USAGE_PERIOD == Msg("Usage: /update_period START [END]", 0)
M_DATES_FORMAT == Msg("Dates must be YYYY-MM-DD.", 0)
M_END_BEFORE_START == Msg("END cannot be before START.", 0)
M_USE_MENU == Msg("Use the menu buttons, or type /start.", 0)

\* the common shape of cmd_start, cmd_today, cmd_forecast, cmd_about and
\* cmd_settings: fetch the profile; without one start_onboarding, else reply
ShowOrOnboard(c, f, msg) ==
    IF f = "fetch" THEN Raised(user_data[c], users, period_log, "fetch")
    ELSE IF db_fetch_user(users, c) = NoProfile THEN start_onboarding(c, f)
    ELSE _send(f, msg, NoRet, user_data[c], users, period_log)

\* fetch, change the profile, upsert, reply: the tail of a settings command
\* whose arguments were accepted (p: the profile as changed)
SaveAndReply(c, f, p, msg) ==
    IF f = "upsert" THEN Raised(user_data[c], users, period_log, "upsert")
    ELSE _send(f, msg, NoRet, user_data[c], db_upsert_user(users, p), period_log)

\* cmd_start that starts onboarding whether or not the chat has a profile
cmd_start_always_onboards(c, f) ==
    Handled(c, None,
        IF f = "fetch" THEN Raised(user_data[c], users, period_log, "fetch")
        ELSE start_onboarding(c, f),
        TRUE)

\* cmd_start is the ConversationHandler's entry point: the state it returns
\* (O_NICK from start_onboarding, else None) is stored
cmd_start(c, f) ==
    Handled(c, None, ShowOrOnboard(c, f, M_TODAY), TRUE)

cmd_today_body(c, f) == ShowOrOnboard(c, f, M_TODAY)

cmd_today(c, f) == Handled(c, None, cmd_today_body(c, f), FALSE)

cmd_forecast_body(c, f) == ShowOrOnboard(c, f, M_FORECAST)

cmd_forecast(c, f) == Handled(c, None, cmd_forecast_body(c, f), FALSE)

cmd_about_body(c, f) == ShowOrOnboard(c, f, M_ABOUT)

cmd_about(c, f) == Handled(c, None, cmd_about_body(c, f), FALSE)

cmd_settings_body(c, f) == ShowOrOnboard(c, f, M_SETTINGS)

cmd_settings(c, f) == Handled(c, None, cmd_settings_body(c, f), FALSE)

\* cmd_re_onboard is a plain CommandHandler: the O_NICK that start_onboarding
\* returns is dropped
cmd_re_onboard(c, f) ==
    Handled(c, None, start_onboarding(c, f), FALSE)

cmd_pause(c, f) ==
    Handled(c, None,
        IF f = "fetch" THEN Raised(user_data[c], users, period_log, "fetch")
        ELSE LET profile == db_fetch_user(users, c)
             IN  IF profile = NoProfile THEN start_onboarding(c, f)
                 ELSE SaveAndReply(c, f, [profile EXCEPT !.paused = TRUE], M_PAUSED),
        FALSE)

\* cmd_resume that writes a profile built anew from the name, the period
\* start and the time, the other fields at their defaults
cmd_resume_rebuilds_profile(c, f) ==
    Handled(c, None,
        IF f = "fetch" THEN Raised(user_data[c], users, period_log, "fetch")
        ELSE LET profile == db_fetch_user(users, c)
             IN  IF profile = NoProfile THEN start_onboarding(c, f)
                 ELSE SaveAndReply(c, f,
                          UserProfile(c, profile.partner_name, None, profile.period_start,
                                      None, 28, profile.notify_time, _default_tz, FALSE),
                          M_RESUMED),
        FALSE)

cmd_resume(c, f) ==
    Handled(c, None,
        IF f = "fetch" THEN Raised(user_data[c], users, period_log, "fetch")
        ELSE LET profile == db_fetch_user(users, c)
             IN  IF profile = NoProfile THEN start_onboarding(c, f)
                 ELSE SaveAndReply(c, f, [profile EXCEPT !.paused = FALSE], M_RESUMED),
        FALSE)

\* cmd_set_time, its calls succeeding, that also drops the chat's entry of
\* the loop's sent_today
cmd_set_time_resets_marker(c, args, f) ==
    LET profile == db_fetch_user(users, c)
    IN  /\ f = "none" /\ profile # NoProfile
        /\ Len(args) = 1 /\ TIME_RE(args[1]) /\ ~_parse_time_hhmm_raises(args[1])
        /\ users' = db_upsert_user(users, [profile EXCEPT !.notify_time = args[1]])
        /\ last' = [chat |-> c, reply |-> M_UPDATED, raised |-> FALSE]
        /\ sent_today' = [x \in (DOMAIN sent_today) \ {c} |-> sent_today[x]]
        /\ UNCHANGED <<conv, user_data, period_log, lastPrompt, accepted>>
        /\ UNCHANGED <<npc, rows, now, fetched, pings, clock, restVars>>

cmd_set_time(c, args, f) ==
    Handled(c, None,
        IF f = "fetch" THEN Raised(user_data[c], users, period_log, "fetch")
        ELSE LET profile == db_fetch_user(users, c)
             IN  IF profile = NoProfile THEN start_onboarding(c, f)
                 ELSE IF Len(args) # 1 \/ ~TIME_RE(args[1])
                 THEN _send(f, M_USAGE_TIME, NoRet, user_data[c], users, period_log)
                 ELSE IF _parse_time_hhmm_raises(args[1])
                 THEN Raised(user_data[c], users, period_log, "none")
                 ELSE SaveAndReply(c, f, [profile EXCEPT !.notify_time = args[1]], M_UPDATED),
        FALSE)

\* cmd_set_cycle without the test of the range
cmd_set_cycle_unranged(c, args, f) ==
    Handled(c, None,
        IF f = "fetch" THEN Raised(user_data[c], users, period_log, "fetch")
        ELSE LET profile == db_fetch_user(users, c)
             IN  IF profile = NoProfile THEN start_onboarding(c, f)
                 ELSE IF Len(args) # 1 \/ ~isdigit(args[1])
                 THEN _send(f, M_USAGE_CYCLE, NoRet, user_data[c], users, period_log)
                 ELSE SaveAndReply(c, f, [profile EXCEPT !.cycle_length = int(args[1])], M_UPDATED),
        FALSE)

cmd_set_cycle(c, args, f) ==
    Handled(c, None,
        IF f = "fetch" THEN Raised(user_data[c], users, period_log, "fetch")
        ELSE LET profile == db_fetch_user(users, c)
             IN  IF profile = NoProfile THEN start_onboarding(c, f)
                 ELSE IF Len(args) # 1 \/ ~isdigit(args[1])
                 THEN _send(f, M_USAGE_CYCLE, NoRet, user_data[c], users, period_log)
                 ELSE IF int(args[1]) < 21 \/ int(args[1]) > 35
                 THEN _send(f, M_CYCLE_RANGE, NoRet, user_data[c], users, period_log)
                 ELSE SaveAndReply(c, f, [profile EXCEPT !.cycle_length = int(args[1])], M_UPDATED),
        FALSE)

\* cmd_update_period once START [END] were accepted: upsert, log, reply
update_period_save(c, f, profile, start_s, end_s) ==
    LET p == [profile EXCEPT !.period_start = start_s, !.period_end = end_s]
        us1 == db_upsert_user(users, p)
    IN  IF f = "upsert" THEN Raised(user_data[c], users, period_log, "upsert")
        ELSE IF f = "log" THEN Raised(user_data[c], us1, period_log, "log")
        ELSE _send(f, M_PERIOD_UPDATED, NoRet, user_data[c], us1,
                   db_log_period(period_log, c, start_s, end_s))

cmd_update_period(c, args, f) ==
    Handled(c, None,
        IF f = "fetch" THEN Raised(user_data[c], users, period_log, "fetch")
        ELSE LET profile == db_fetch_user(users, c)
                 start_s == args[1]
                 end_s == IF Len(args) = 2 THEN args[2] ELSE None
             IN  IF profile = NoProfile THEN start_onboarding(c, f)
                 ELSE IF Len(args) \notin {1, 2}
                 THEN _send(f, M_USAGE_PERIOD, NoRet, user_data[c], users, period_log)
                 ELSE IF ~DATE_RE(start_s) \/ (end_s # None /\ ~DATE_RE(end_s))
                 THEN _send(f, M_DATES_FORMAT, NoRet, user_data[c], users, period_log)
                 ELSE IF fromisoformat_raises(start_s)
                 THEN Raised(user_data[c], users, period_log, "none")
                 ELSE IF end_s # None /\ fromisoformat_raises(end_s)
                 THEN Raised(user_data[c], users, period_log, "none")
                 ELSE IF end_s # None /\ DateLess(fromisoformat(end_s), fromisoformat(start_s))
                 THEN _send(f, M_END_BEFORE_START, NoRet, user_data[c], users, period_log)
                 ELSE update_period_save(c, f, profile, start_s, end_s),
        FALSE)

\* on_menu_text registered ahead of the ConversationHandler: it takes the
\* text in every state
on_menu_text_any_state(c, text, f) ==
    LET t == _norm(text)
    IN  Handled(c, None,
          IF t = BTN_TODAY THEN cmd_today_body(c, f)
          ELSE IF t = BTN_FORECAST THEN cmd_forecast_body(c, f)
          ELSE IF t = BTN_SETTINGS THEN cmd_settings_body(c, f)
          ELSE IF t = BTN_ABOUT THEN cmd_about_body(c, f)
          ELSE _send(f, M_USE_MENU, NoRet, user_data[c], users, period_log),
          FALSE)

\* on_menu_text: MessageHandler(filters.TEXT & ~filters.COMMAND), reached only
\* when the ConversationHandler did not take the text (no conversation)
on_menu_text(c, text, f) ==
    /\ conv[c] = END
    /\ LET t == _norm(text)
       IN  Handled(c, None,
             IF t = BTN_TODAY THEN cmd_today_body(c, f)
             ELSE IF t = BTN_FORECAST THEN cmd_forecast_body(c, f)
             ELSE IF t = BTN_SETTINGS THEN cmd_settings_body(c, f)
             ELSE IF t = BTN_ABOUT THEN cmd_about_body(c, f)
             ELSE _send(f, M_USE_MENU, NoRet, user_data[c], users, period_log),
             FALSE)

----------------------------------------------------------------------------
(* notification_loop: one task beside the handlers.  Each await of the     *)
(* loop is a step of its own, so updates are handled between the fetch of  *)
(* the rows, the fetch of a profile and its send.                          *)

\* the last day of the wall clock
MaxDay == 1

\* the minutes of a day at which the wall clock is read, as <<hour, minute>>
ClockTimes == <<<<9, 0>>, <<9, 1>>>>

\* local_now.date() on day d of the run
LocalDate(d) == <<2025, 1, 2 + d>>

\* local_now.date().isoformat()
local_date(t) == isoformat(LocalDate(t[1]))

\* f"{local_now.hour:02d}:{local_now.minute:02d}"
hhmm(t) == Pad(ClockTimes[t[2]][1], 2) \o <<":">> \o Pad(ClockTimes[t[2]][2], 2)

\* time passes: the next minute read, or the first one of the next day
clock_advance ==
    /\ \/ clock[2] < Len(ClockTimes) /\ clock' = <<clock[1], clock[2] + 1>>
       \/ clock[2] = Len(ClockTimes) /\ clock[1] < MaxDay /\ clock' = <<clock[1] + 1, 1>>
    /\ UNCHANGED <<botVars, restVars, loopVars>>

\* the sequences that hold every element of S once
RECURSIVE Orders(_)
Orders(S) ==
    IF S = {} THEN {<<>>}
    ELSE UNION {{<<x>> \o o : o \in Orders(S \ {x})} : x \in S}

\* SELECT chat_id, notify_time, tz, paused FROM users: a row of the result
LoopRowOf(c) ==
    [chat_id |-> c, notify_time |-> users[c].notify_time, tz |-> users[c].tz,
     paused |-> users[c].paused]

\* sent_today.get(chat_id)
SentToday(c) == IF c \in DOMAIN sent_today THEN sent_today[c] ELSE None

\* a tick starts: the rows are fetched (in an order SQL does not fix) and
\* now_utc is read; when the fetch fails the tick is over (except: sleep 5)
loop_fetch_rows(f) ==
    /\ npc = "idle"
    /\ IF f = "fetch"
       THEN UNCHANGED <<npc, rows, now>>
       ELSE /\ \E o \in Orders(DOMAIN users) : rows' = [i \in 1..Len(o) |-> LoopRowOf(o[i])]
            /\ now' = clock
            /\ npc' = "scan"
    /\ UNCHANGED <<botVars, restVars, clock, fetched, sent_today, pings>>

\* Due without the test of sent_today
Due_unmarked(r) ==
    /\ ~r.paused
    /\ hhmm(now) = r.notify_time

\* the row at hand is due: not paused, HH:MM equal and no ping marked today
Due(r) ==
    /\ ~r.paused
    /\ hhmm(now) = r.notify_time
    /\ SentToday(r.chat_id) # local_date(now)

\* for r in rows: a row that is not due is passed over; for a due row the
\* profile is fetched (a failed fetch ends the tick in the outer except)
loop_row(f) ==
    /\ npc = "scan"
    /\ rows # <<>>
    /\ LET r == Head(rows)
       IN  IF ~Due(r)
           THEN /\ rows' = Tail(rows)
                /\ UNCHANGED <<npc, fetched>>
           ELSE IF f = "fetch"
           THEN /\ rows' = <<>>
                /\ npc' = "idle"
                /\ UNCHANGED fetched
           ELSE IF db_fetch_user(users, r.chat_id) = NoProfile
           THEN /\ rows' = Tail(rows)
                /\ UNCHANGED <<npc, fetched>>
           ELSE /\ fetched' = db_fetch_user(users, r.chat_id)
                /\ npc' = "send"
                /\ UNCHANGED rows
    /\ UNCHANGED <<botVars, restVars, clock, now, sent_today, pings>>

\* loop_send in which a failed send reaches the except of the tick: the rows
\* left are dropped and the loop sleeps
loop_send_failure_ends_tick(sent) ==
    /\ npc = "send"
    /\ LET chat_id == Head(rows).chat_id
       IN  /\ pings' = [pings EXCEPT ![fetched.chat_id] = Append(@, <<local_date(now), sent>>)]
           /\ sent_today' = IF sent THEN Put(sent_today, chat_id, local_date(now)) ELSE sent_today
    /\ rows' = IF sent THEN Tail(rows) ELSE <<>>
    /\ fetched' = NoProfile
    /\ npc' = IF sent THEN "scan" ELSE "idle"
    /\ UNCHANGED <<botVars, restVars, clock, now>>

\* loop_send that records the date only when the send succeeded
loop_send_mark_on_success(sent) ==
    /\ npc = "send"
    /\ LET chat_id == Head(rows).chat_id
       IN  /\ pings' = [pings EXCEPT ![fetched.chat_id] = Append(@, <<local_date(now), sent>>)]
           /\ sent_today' = IF sent THEN Put(sent_today, chat_id, local_date(now)) ELSE sent_today
    /\ rows' = Tail(rows)
    /\ fetched' = NoProfile
    /\ npc' = "scan"
    /\ UNCHANGED <<botVars, restVars, clock, now>>

\* _send_daily_ping(app, profile), which catches a failed send, and then
\* sent_today[chat_id] = local_date
loop_send(sent) ==
    /\ npc = "send"
    /\ LET chat_id == Head(rows).chat_id
       IN  /\ pings' = [pings EXCEPT ![fetched.chat_id] = Append(@, <<local_date(now), sent>>)]
           /\ sent_today' = Put(sent_today, chat_id, local_date(now))
    /\ rows' = Tail(rows)
    /\ fetched' = NoProfile
    /\ npc' = "scan"
    /\ UNCHANGED <<botVars, restVars, clock, now>>

\* the rows are done: asyncio.sleep(30)
loop_sleep ==
    /\ npc = "scan"
    /\ rows = <<>>
    /\ npc' = "idle"
    /\ UNCHANGED <<botVars, restVars, clock, rows, now, fetched, sent_today, pings>>

\* the process may be started MaxRuns times
MaxRuns == 2

\* the process ends and main() starts it again: the tables stay; the
\* conversations, user_data and the loop's locals, sent_today among them,
\* are those of a new process
restart ==
    /\ runs < MaxRuns
    /\ runs' = runs + 1
    /\ conv' = [c \in Chats |-> END]
    /\ user_data' = [c \in Chats |-> <<>>]
    /\ accepted' = [c \in Chats |-> <<>>]
    /\ npc' = "idle"
    /\ rows' = <<>>
    /\ fetched' = NoProfile
    /\ sent_today' = <<>>
    /\ held' = NoHeld
    /\ UNCHANGED <<users, period_log, last, lastPrompt, now, clock, pings, calc>>

----------------
(* Cycle arithmetic, and render_today's and render_forecast's use of it                           *)

max(a, b) == IF a >= b THEN a ELSE b
min(a, b) == IF a <= b THEN a ELSE b

\* dt.date.toordinal(): the day's number, 0001-01-01 being day 1
RECURSIVE toordinal(_)
toordinal(d) ==
    IF d[2] > 1 THEN DaysInMonth(d[1], d[2] - 1) + toordinal(<<d[1], d[2] - 1, d[3]>>)
    ELSE LET y == d[1] - 1
         IN  365 * y + (y \div 4) - (y \div 100) + (y \div 400) + d[3]

\* _compute_period_length that counts the days between start and end, the
\* end day left out
_compute_period_length_exclusive(start, end) ==
    IF end = None \/ end = <<>> THEN 5
    ELSE max(1, toordinal(fromisoformat(end)) - toordinal(fromisoformat(start)))

\* _compute_period_length(start, end): start, end as the profile holds them,
\* ISO texts, end possibly None
_compute_period_length(start, end) ==
    IF end = None \/ end = <<>> THEN 5
    ELSE max(1, (toordinal(fromisoformat(end)) - toordinal(fromisoformat(start))) + 1)

\* _cycle_day_for with C's remainder (sign of the dividend) for Python's %
_cycle_day_for_truncating(date_, cycle_start, cycle_len) ==
    LET delta == toordinal(date_) - toordinal(cycle_start)
    IN  (IF delta >= 0 THEN delta % cycle_len ELSE 0 - ((0 - delta) % cycle_len)) + 1

\* _cycle_day_for(date_, cycle_start, cycle_len); Python's % takes the sign
\* of the divisor, as TLA+'s % does
_cycle_day_for(date_, cycle_start, cycle_len) ==
    LET delta == toordinal(date_) - toordinal(cycle_start)
    IN  (delta % cycle_len) + 1

\* the keys of the dict _phase_boundaries returns, in insertion order
PhaseOrder == <<"menstrual", "follicular", "ovulatory", "luteal">>

\* _phase_boundaries whose follicular range starts a day late
_phase_boundaries_late_follicular(cycle_len, period_len0) ==
    LET period_len == min(max(period_len0, 3), 8)
        ov_center == max(10, cycle_len - 14)
        ov_start == max(period_len + 1, ov_center - 1)
        ov_end == min(cycle_len, ov_center + 1)
        fol_start == period_len + 2
        fol_end == max(fol_start, ov_start - 1)
        lut_start == ov_end + 1
        lut_end == cycle_len
    IN  [menstrual |-> <<1, period_len>>,
         follicular |-> <<fol_start, fol_end>>,
         ovulatory |-> <<ov_start, ov_end>>,
         luteal |-> <<lut_start, lut_end>>]

\* _phase_boundaries(cycle_len, period_len): phase -> (first day, last day)
_phase_boundaries(cycle_len, period_len0) ==
    LET period_len == min(max(period_len0, 3), 8)
        ov_center == max(10, cycle_len - 14)
        ov_start == max(period_len + 1, ov_center - 1)
        ov_end == min(cycle_len, ov_center + 1)
        fol_start == period_len + 1
        fol_end == max(fol_start, ov_start - 1)
        lut_start == ov_end + 1
        lut_end == cycle_len
    IN  [menstrual |-> <<1, period_len>>,
         follicular |-> <<fol_start, fol_end>>,
         ovulatory |-> <<ov_start, ov_end>>,
         luteal |-> <<lut_start, lut_end>>]

\* the first key of bounds, from its i-th on, whose range holds day; "fallback"
\* when the loop ends without one
RECURSIVE PhaseFrom(_, _, _)
PhaseFrom(i, day, bounds) ==
    IF i > Len(PhaseOrder) THEN "fallback"
    ELSE IF bounds[PhaseOrder[i]][1] <= day /\ day <= bounds[PhaseOrder[i]][2] THEN PhaseOrder[i]
    ELSE PhaseFrom(i + 1, day, bounds)

\* _phase_for_cycle_day(day, bounds)
_phase_for_cycle_day(day, bounds) ==
    IF PhaseFrom(1, day, bounds) = "fallback" THEN "luteal" ELSE PhaseFrom(1, day, bounds)

\* d + dt.timedelta(days=1)
tomorrow(d) ==
    IF d[3] < DaysInMonth(d[1], d[2]) THEN <<d[1], d[2], d[3] + 1>>
    ELSE IF d[2] < 12 THEN <<d[1], d[2] + 1, 1>>
    ELSE <<d[1] + 1, 1, 1>>

\* today + dt.timedelta(days=i), i >= 0
RECURSIVE plus_days(_, _)
plus_days(d, i) == IF i = 0 THEN d ELSE plus_days(tomorrow(d), i - 1)

\* the text that closes the forecast when change_points is empty
NoSwitch == "No phase switch within this window."

\* last_phase = None: no phase seen yet
NoPhase == "None"

\* render_forecast whose last_phase stays the phase of the first day
RECURSIVE forecast_loop_first_phase(_, _, _, _, _, _, _, _, _)
forecast_loop_first_phase(i, days, today, start, cycle_length, bounds, last_phase, lines, change_points) ==
    IF i >= days THEN [lines |-> lines, change_points |-> change_points,
                       closing |-> IF change_points # <<>> THEN "change points" ELSE NoSwitch]
    ELSE LET d == plus_days(today, i)
             cd == _cycle_day_for(d, start, cycle_length)
             ph == _phase_for_cycle_day(cd, bounds)
         IN  forecast_loop_first_phase(i + 1, days, today, start, cycle_length, bounds,
                 IF last_phase = NoPhase THEN ph ELSE last_phase,
                 Append(lines, <<isoformat(d), cd, ph>>),
                 IF last_phase # NoPhase /\ ph # last_phase
                 THEN Append(change_points, <<isoformat(d), ph>>) ELSE change_points)

\* render_forecast: for i in range(days), from the i-th pass on; a line is
\* <<date, cycle day, phase>>, a change point <<date, phase>>
RECURSIVE forecast_loop(_, _, _, _, _, _, _, _, _)
forecast_loop(i, days, today, start, cycle_length, bounds, last_phase, lines, change_points) ==
    IF i >= days THEN [lines |-> lines, change_points |-> change_points,
                       closing |-> IF change_points # <<>> THEN "change points" ELSE NoSwitch]
    ELSE LET d == plus_days(today, i)
             cd == _cycle_day_for(d, start, cycle_length)
             ph == _phase_for_cycle_day(cd, bounds)
         IN  forecast_loop(i + 1, days, today, start, cycle_length, bounds,
                 IF last_phase = NoPhase \/ ph # last_phase THEN ph ELSE last_phase,
                 Append(lines, <<isoformat(d), cd, ph>>),
                 IF last_phase # NoPhase /\ ph # last_phase
                 THEN Append(change_points, <<isoformat(d), ph>>) ELSE change_points)

\* render_forecast(profile, days), today being _today_in_tz(tz)
render_forecast(profile, days, today) ==
    forecast_loop(0, days, today, fromisoformat(profile.period_start), profile.cycle_length,
        _phase_boundaries(profile.cycle_length,
            _compute_period_length(profile.period_start, profile.period_end)),
        NoPhase, <<>>, <<>>)

\* the windows forecast: cmd_forecast asks for 7 days
ForecastDays == {0, 1, 7}

\* no render_today at work
NoCalc == [pc |-> "none"]

\* the cycle lengths and period ends of the profiles rendered, and the days
\* they are rendered on: period_start is 2025-01-01
CycleLengths == 21 .. 35
PeriodEnds == {None} \cup {isoformat(<<2025, 1, d>>) : d \in 1 .. 9}
Todays ==
    {d \in {2024, 2025} \X (1 .. 12) \X (1 .. 31) :
        /\ d[3] <= DaysInMonth(d[1], d[2])
        /\ toordinal(d) - toordinal(<<2025, 1, 1>>) \in (0 - 72) .. 72}

\* render_today is called: today = _today_in_tz(tz).  A profile without
\* period_end is rendered on every day of Todays, one with period_end on
\* the 35 days from period_start on.
CalcInput(L, e, d) ==
    [pc |-> "start", cycle_length |-> L, period_start |-> isoformat(<<2025, 1, 1>>),
     period_end |-> e, today |-> d, period_len |-> 0, bounds |-> <<>>, day |-> 0,
     phase |-> "", days |-> 0, forecast |-> <<>>]

CalcInputs ==
    {CalcInput(L, None, d) : L \in CycleLengths, d \in Todays}
    \cup {CalcInput(L, e, d) : L \in CycleLengths, e \in PeriodEnds \ {None},
             d \in {t \in Todays : toordinal(t) - toordinal(<<2025, 1, 1>>) \in 0 .. 34}}

\* render_forecast(profile, days) for the profile and the day of calc
forecast(days) ==
    /\ calc.pc = "start"
    /\ calc' = [calc EXCEPT
            !.pc = "forecast",
            !.days = days,
            !.forecast = render_forecast(calc, days, calc.today)]
    /\ UNCHANGED <<botVars, loopVars, clock, runs, held>>

\* render_today: period_len and bounds
render_period ==
    /\ calc.pc = "start"
    /\ calc' = [calc EXCEPT
            !.pc = "period",
            !.period_len = _compute_period_length(calc.period_start, calc.period_end),
            !.bounds = _phase_boundaries(calc.cycle_length,
                           _compute_period_length(calc.period_start, calc.period_end))]
    /\ UNCHANGED <<botVars, loopVars, clock, runs, held>>

\* render_today: day and phase
render_day ==
    /\ calc.pc = "period"
    /\ calc' = [calc EXCEPT
            !.pc = "day",
            !.day = _cycle_day_for(calc.today, fromisoformat(calc.period_start), calc.cycle_length),
            !.phase = _phase_for_cycle_day(
                          _cycle_day_for(calc.today, fromisoformat(calc.period_start),
                                         calc.cycle_length),
                          calc.bounds)]
    /\ UNCHANGED <<botVars, loopVars, clock, runs, held>>

----------------------------------------------------------------------------
(* The updates the chats send                                              *)

T_Anna == <<"A", "n", "n", "a">>
T_A == <<"A">>
T_0101 == <<"2", "0", "2", "5", "-", "0", "1", "-", "0", "1">>
T_0105 == <<"2", "0", "2", "5", "-", "0", "1", "-", "0", "5">>
T_1340 == <<"2", "0", "2", "5", "-", "1", "3", "-", "4", "0">>
T_28 == <<"2", "8">>
T_28_blank == <<" ", "2", "8", " ">>
T_35 == <<"3", "5">>
T_36 == <<"3", "6">>
T_0900 == <<"0", "9", ":", "0", "0">>
T_0901 == <<"0", "9", ":", "0", "1">>
T_2599 == <<"2", "5", ":", "9", "9">>

\* The texts a chat sends while its conversation is in state st: for each
\* branch of the state's handler a text that takes it.
TextsAt(st) ==
    CASE st = O_NICK -> {T_Anna, T_A, BTN_TODAY, BTN_ABOUT}
      [] st = O_DOB -> {T_skip, T_0101, T_1340, T_Anna, BTN_FORECAST}
      [] st = O_START -> {T_0101, T_0105, T_1340, T_28, BTN_SETTINGS}
      [] st = O_END -> {T_skip, T_0101, T_0105, T_1340, T_0900, BTN_TODAY}
      [] st = O_CYCLE -> {T_28, T_28_blank, T_36, T_Anna, BTN_ABOUT}
      [] st = O_TIME -> {T_0900, T_2599, T_28, BTN_FORECAST}
      [] OTHER -> MENU_TEXTS \cup {T_Anna}

\* the row of chat 2 that the users table holds when the process starts
RowAtStart ==
    [partner_name |-> T_Anna, partner_dob |-> NULL, period_start |-> <<2025, 1, 1>>,
     period_end |-> NULL, cycle_length |-> 28, notify_time |-> T_0900,
     tz |-> _default_tz, paused |-> FALSE]

\* The process starts: no conversation, no user_data, nothing sent; the
\* tables hold what an earlier run left: chat 2 is onboarded, chat 1 is new.
Init ==
    /\ conv = [c \in Chats |-> END]
    /\ user_data = [c \in Chats |-> <<>>]
    /\ users = [c \in {2} |-> RowAtStart]
    /\ period_log = <<>>
    /\ last = [chat |-> 0, reply |-> NoMsg, raised |-> FALSE]
    /\ lastPrompt = [c \in Chats |-> 0]
    /\ accepted = [c \in Chats |-> <<>>]
    /\ npc = "idle"
    /\ rows = <<>>
    /\ now = <<0, 1>>
    /\ fetched = NoProfile
    /\ sent_today = <<>>
    /\ clock = <<0, 1>>
    /\ pings = [c \in Chats |-> <<>>]
    /\ calc = NoCalc
    /\ runs = 1
    /\ held = NoHeld

\* a non-command text of chat c: the state handler inside a conversation,
\* on_menu_text outside; F: the faults that may hit the handler
Message(c, t, F) ==
    \/ \E f \in F \cap {"none", "send"} :
        \/ o_nick(c, t, f)
        \/ o_dob(c, t, f)
        \/ o_start(c, t, f)
        \/ o_end(c, t, f)
        \/ o_cycle(c, t, f)
    \/ \E f \in F \cap {"none", "upsert", "log", "send"} : o_time(c, t, f)
    \/ \E f \in F \cap {"none", "fetch", "send"} : on_menu_text(c, t, f)

\* /start and /cancel, the two commands the ConversationHandler takes
ConvCommand(c, F) ==
    \/ \E f \in F \cap {"none", "fetch", "send"} : cmd_start(c, f)
    \/ \E f \in F \cap {"none", "send"} : cancel(c, f)

\* a command without arguments
Command(c, F) ==
    \/ \E f \in F \cap {"none", "fetch", "send"} :
        \/ cmd_today(c, f)
        \/ cmd_forecast(c, f)
        \/ cmd_about(c, f)
        \/ cmd_settings(c, f)
    \/ \E f \in F \cap {"none", "send"} : cmd_re_onboard(c, f)

\* /pause and /resume
PauseResume(c, F) ==
    \E f \in F \cap {"none", "fetch", "upsert", "send"} :
        \/ cmd_pause(c, f)
        \/ cmd_resume(c, f)

\* a settings command with its words
SettingsCommand(c, args, F) ==
    \/ \E f \in F \cap {"none", "fetch", "upsert", "send"} :
        \/ cmd_set_time(c, args, f)
        \/ cmd_set_cycle(c, args, f)
    \/ \E f \in F : cmd_update_period(c, args, f)

\* Onboarding: chat 1 talks to the bot; every call made for a text, a /start
\* or a /cancel may fail; chat 2, onboarded, pauses and resumes.
Next ==
    \/ \E t \in TextsAt(conv[1]) : Message(1, t, Faults)
    \/ ConvCommand(1, Faults)
    \/ Command(1, {"none"})
    \/ PauseResume(1, {"none"})
    \/ PauseResume(2, {"none"})

Spec == Init /\ [][Next]_vars

\* the texts chat 1 sends in state st under SpecSettings: answers that fill a
\* profile, and those a profile must not be filled with
TextsLite(st) ==
    CASE st = O_NICK -> {T_Anna}
      [] st = O_DOB -> {T_skip}
      [] st = O_START -> {T_0101, T_0105, T_1340}
      [] st = O_END -> {T_skip, T_0101, T_0105}
      [] st = O_CYCLE -> {T_28, T_36}
      [] st = O_TIME -> {T_0900, T_2599}
      [] OTHER -> {BTN_SETTINGS}

\* the argument lists of /set_time, /set_cycle and /update_period
ArgListsLite ==
    {<<>>, <<T_0900>>, <<T_2599>>, <<T_35>>, <<T_36>>, <<T_0105>>, <<T_1340>>,
     <<T_0101, T_0105>>, <<T_0105, T_0101>>, <<T_0101, T_0105, T_0105>>}

\* Settings: chat 1 onboards (no call fails) and sends settings commands with
\* every kind of argument list; chat 2 pauses, resumes and sets its cycle.
NextSettings ==
    \/ \E t \in TextsLite(conv[1]) : Message(1, t, {"none"})
    \/ ConvCommand(1, {"none"})
    \/ PauseResume(1, {"none"})
    \/ \E args \in ArgListsLite : SettingsCommand(1, args, {"none", "log"})
    \/ PauseResume(2, {"none"})

SpecSettings == Init /\ [][NextSettings]_vars

\* The notification loop runs while time passes and both chats, onboarded,
\* send settings commands.
NextLoop ==
    \/ clock_advance
    \/ \E f \in {"none", "fetch"} : loop_fetch_rows(f)
    \/ \E f \in {"none", "fetch"} : loop_row(f)
    \/ \E sent \in BOOLEAN : (sent \/ fetched.chat_id = 2) /\ loop_send(sent)
    \/ loop_sleep
    \/ PauseResume(1, {"none"})
    \/ \E args \in {<<T_0900>>, <<T_0901>>} : cmd_set_time(1, args, "none")
    \/ cmd_set_cycle(1, <<T_28>>, "none")

InitLoop ==
    /\ conv = [c \in Chats |-> END]
    /\ user_data = [c \in Chats |-> <<>>]
    /\ users = [c \in Chats |-> RowAtStart]
    /\ period_log = <<>>
    /\ last = [chat |-> 0, reply |-> NoMsg, raised |-> FALSE]
    /\ lastPrompt = [c \in Chats |-> 0]
    /\ accepted = [c \in Chats |-> <<>>]
    /\ npc = "idle"
    /\ rows = <<>>
    /\ now = <<0, 1>>
    /\ fetched = NoProfile
    /\ sent_today = <<>>
    /\ clock = <<0, 1>>
    /\ pings = [c \in Chats |-> <<>>]
    /\ calc = NoCalc
    /\ runs = 1
    /\ held = NoHeld

SpecLoop == InitLoop /\ [][NextLoop]_vars

\* The notification loop, with sends that succeed, in a process that may be
\* started again at any moment.
NextRestart ==
    \/ clock_advance
    \/ loop_fetch_rows("none")
    \/ loop_row("none")
    \/ loop_send(TRUE)
    \/ loop_sleep
    \/ restart

SpecRestart == InitLoop /\ [][NextRestart]_vars

\* Application.builder() with concurrent_updates switched on: an update is
\* handled while the handler of another one waits
concurrent_updates_on == TRUE

\* Application.builder().token(token).post_init(post_init).build():
\* concurrent_updates is left off, so the Application awaits the handler of
\* an update before it takes the next update
concurrent_updates == FALSE

\* profile as the settings command kind changes it before its upsert
Changed(profile, kind, args) ==
    IF kind = "pause" THEN [profile EXCEPT !.paused = TRUE]
    ELSE IF kind = "resume" THEN [profile EXCEPT !.paused = FALSE]
    ELSE IF kind = "set_time" THEN [profile EXCEPT !.notify_time = args[1]]
    ELSE [profile EXCEPT !.cycle_length = int(args[1])]

\* cmd_pause, cmd_resume, cmd_set_time, cmd_set_cycle up to their
\* await db_upsert_user(profile): db_fetch_user has returned the row and the
\* field is set in the handler's copy; the arguments are valid ones
settings_fetched(c, kind, args) ==
    /\ held = NoHeld
    /\ db_fetch_user(users, c) # NoProfile
    /\ held' = [chat_id |-> c, kind |-> kind, args |-> args,
                profile |-> Changed(db_fetch_user(users, c), kind, args)]
    /\ UNCHANGED <<botVars, loopVars, clock, calc, runs>>

\* the rest of the command: db_upsert_user(profile) writes the handler's
\* copy over the row, and the reply is sent
settings_upsert ==
    /\ held # NoHeld
    /\ users' = db_upsert_user(users, held.profile)
    /\ last' = [chat |-> held.chat_id,
                reply |-> IF held.kind = "pause" THEN M_PAUSED
                          ELSE IF held.kind = "resume" THEN M_RESUMED ELSE M_UPDATED,
                raised |-> FALSE]
    /\ held' = NoHeld
    /\ UNCHANGED <<conv, user_data, period_log, lastPrompt, accepted, loopVars, clock, calc, runs>>

\* The settings commands of chat 1, each in two steps around its await of
\* the upsert, beside the notification loop; a command handled in one step
\* is one that runs while no other handler waits.
NextRace ==
    \/ settings_fetched(1, "pause", <<>>)
    \/ settings_fetched(1, "resume", <<>>)
    \/ settings_fetched(1, "set_time", <<T_0901>>)
    \/ settings_fetched(1, "set_cycle", <<T_35>>)
    \/ settings_upsert
    \/ (concurrent_updates \/ held = NoHeld) /\ PauseResume(1, {"none"})
    \/ (concurrent_updates \/ held = NoHeld) /\ cmd_set_time(1, <<T_0900>>, "none")
    \/ loop_fetch_rows("none")
    \/ loop_row("none")
    \/ loop_send(TRUE)
    \/ loop_sleep

SpecRace == InitLoop /\ [][NextRace]_vars

\* render_today alone, for the profiles and days of CalcInputs
InitRender ==
    /\ conv = [c \in Chats |-> END]
    /\ user_data = [c \in Chats |-> <<>>]
    /\ users = [c \in Chats |-> RowAtStart]
    /\ period_log = <<>>
    /\ last = [chat |-> 0, reply |-> NoMsg, raised |-> FALSE]
    /\ lastPrompt = [c \in Chats |-> 0]
    /\ accepted = [c \in Chats |-> <<>>]
    /\ npc = "idle"
    /\ rows = <<>>
    /\ now = <<0, 1>>
    /\ fetched = NoProfile
    /\ sent_today = <<>>
    /\ clock = <<0, 1>>
    /\ pings = [c \in Chats |-> <<>>]
    /\ calc \in CalcInputs
    /\ runs = 1
    /\ held = NoHeld

NextRender ==
    \/ render_period
    \/ render_day
    \/ \E days \in ForecastDays : forecast(days)

SpecRender == InitRender /\ [][NextRender]_vars

----------------------------------------------------------------------------
(* Properties of the notification loop, under SpecLoop                      *)

\* the pings of chat c that were delivered, as local dates
Delivered(c) == {i \in DOMAIN pings[c] : pings[c][i][2]}

\* C1: within one run of the loop, no chat is sent two daily pings on the same
\* local date, whatever ticks fall in the minute and whatever settings
\* commands are handled between the loop's steps.
C1_AtMostOnePingPerDate ==
    \A c \in Chats : \A i, j \in Delivered(c) :
        i # j => pings[c][i][1] # pings[c][j][1]

\* C1 at work: chat 1 got its ping at 09:00 and moved its time to 09:01; a
\* tick at 09:01 of the same day holds its row, not paused and at its minute.
C1_Witness ==
    /\ pings[1] = <<<<local_date(now), TRUE>>>>
    /\ npc = "scan" /\ rows # <<>>
    /\ Head(rows).chat_id = 1 /\ ~Head(rows).paused
    /\ Head(rows).notify_time = T_0901 /\ hhmm(now) = T_0901

C17_FailedSendKeepsScanning ==
    [][(npc = "send" /\ loop_send(FALSE))
          => /\ npc' = "scan"
             /\ rows' = Tail(rows)
             /\ now' = now]_vars

\* C17 at work: no command was ever sent; the ping of chat 2 has failed
\* today and the tick, with chat 1 as its last row, is sending chat 1's ping
C17_Witness ==
    /\ npc = "send" /\ fetched.chat_id = 1 /\ Len(rows) = 1
    /\ last.chat = 0
    /\ pings[2] = <<<<local_date(now), FALSE>>>>
    /\ pings[1] = <<>>

\* C18: the marker of the day's ping outlives the process, so that a chat is
\* sent at most one ping per local date also when the process is started
\* again within the minute of that day's ping (under SpecRestart).
C18_OnePingPerDateAcrossRuns ==
    \A c \in Chats : \A d \in 0 .. MaxDay :
        Cardinality({i \in Delivered(c) : pings[c][i][1] = local_date(<<d, 1>>)}) <= 1

\* C19 as stated: a settings command that changes a field of chat 1's row
\* leaves the chat without a marker in sent_today.
C19_SettingsChangeClearsMarker ==
    [][users'[1] # users[1] => 1 \notin DOMAIN sent_today']_vars

\* C19 as the code has it: a settings command that changes a field of chat
\* 1's row leaves sent_today, the chat's marker included, as it is.
C19_SettingsChangeKeepsMarker ==
    [][users'[1] # users[1] => sent_today' = sent_today]_vars

\* C19 at work: chat 1, pinged today, has moved its notify_time to 09:01
\* and its marker is still today's date
C19_Witness ==
    /\ last.chat = 1 /\ last.reply = M_UPDATED
    /\ users[1].notify_time = T_0901
    /\ Get(sent_today, 1) = local_date(clock)
    /\ npc = "idle"

\* C22: no ping is sent to a chat whose row is paused: when the loop sends
\* the ping of a chat, the chat's row, as the last /pause or /resume
\* written has left it, is not paused.
C22_NoPingWhilePaused ==
    [][(npc = "send" /\ \E sent \in BOOLEAN : loop_send(sent))
          => ~users[fetched.chat_id].paused]_vars

\* C23: every send attempt, failed or not, leaves the chat's marker at the
\* tick's local date, so that a chat has at most one send attempt per local
\* date, whatever the outcome of the attempt.
C23_MarkerAfterEveryAttempt ==
    /\ \A c \in Chats : \A i, j \in DOMAIN pings[c] :
           i # j => pings[c][i][1] # pings[c][j][1]
    /\ \A c \in Chats : \A i \in DOMAIN pings[c] :
           /\ c \in DOMAIN sent_today
           /\ ~DateLess(fromisoformat(sent_today[c]), fromisoformat(pings[c][i][1]))

\* C23 at work: the ping of chat 2 has failed today, and a later tick of the
\* same minute holds chat 2's row, not paused and at its minute
C23_Witness ==
    /\ pings[2] = <<<<local_date(now), FALSE>>>>
    /\ npc = "scan" /\ rows # <<>>
    /\ Head(rows).chat_id = 2 /\ ~Head(rows).paused
    /\ hhmm(now) = Head(rows).notify_time

\* C24: when the fetch of the profile of a due row fails, the scan goes on
\* with the rows after it.
C24_FailedFetchKeepsScanning ==
    [][(npc = "scan" /\ rows # <<>> /\ Due(Head(rows)) /\ loop_row("fetch"))
          => /\ npc' = "scan"
             /\ rows' = Tail(rows)]_vars

----------------------------------------------------------------------------
(* Properties of the store, under SpecSettings                              *)

\* s is a time of the 24-hour clock written HH:MM
ValidHHMM(s) ==
    /\ Len(s) = 5 /\ s[3] = ":"
    /\ \A i \in {1, 2, 4, 5} : IsDigitCh(s[i])
    /\ 10 * DigitVal(s[1]) + DigitVal(s[2]) <= 23
    /\ 10 * DigitVal(s[4]) + DigitVal(s[5]) <= 59

\* C3: after any onboarding runs (with /start and /cancel) and any settings
\* commands, every row of the users table has cycle_length in 21..35, a
\* notify_time that is a valid 24-hour HH:MM, and a period_end that is NULL
\* or not before period_start.
C3_StoredProfilesValid ==
    \A c \in DOMAIN users :
        /\ users[c].cycle_length >= 21 /\ users[c].cycle_length <= 35
        /\ ValidHHMM(users[c].notify_time)
        /\ users[c].period_end = NULL
           \/ ~DateLess(users[c].period_end, users[c].period_start)

\* C3 at work: chat 1 onboarded, set its cycle to 35 and its period to
\* 2025-01-01 .. 2025-01-05, and its /set_time 25:99 has just been handled.
C3_Witness ==
    /\ 1 \in DOMAIN users
    /\ users[1].cycle_length = 35
    /\ users[1].period_start = <<2025, 1, 1>> /\ users[1].period_end = <<2025, 1, 5>>
    /\ last.chat = 1 /\ last.raised /\ conv[1] = END

----------------------------------------------------------------------------
(* Properties of onboarding, under Spec (C5: under SpecSettings)            *)

\* t is a date of the calendar written YYYY-MM-DD
ValidDate(t) ==
    /\ DATE_RE(t)
    /\ LET f == DateFields(t)
       IN  /\ f[1] >= 1
           /\ f[2] \in 1..12
           /\ f[3] \in 1..DaysInMonth(f[1], f[2])

\* the step after st; after NOTIFY_TIME the session is over
NextStep(st) == IF st = O_TIME THEN END ELSE st + 1

\* the rule of step st holds of the text t (start: the period start given)
ValidAnswer(st, t, start) ==
    LET s == _norm(t)
    IN  /\ s \notin MENU_TEXTS
        /\ CASE st = O_NICK -> Len(s) >= 2
             [] st = O_DOB -> lower(s) = T_skip \/ ValidDate(lower(s))
             [] st = O_START -> ValidDate(s)
             [] st = O_END ->
                    \/ lower(s) = T_skip
                    \/ /\ ValidDate(lower(s))
                       /\ ValidDate(start)
                       /\ ~DateLess(DateFields(lower(s)), DateFields(start))
             [] st = O_CYCLE -> isdigit(s) /\ int(s) >= 21 /\ int(s) <= 35
             [] st = O_TIME -> ValidHHMM(s)
             [] OTHER -> FALSE

\* the period start that user_data d holds, if any
StartOf(d) == IF "period_start" \in DOMAIN d THEN d.period_start ELSE <<>>

\* t is no menu label and fails the rule of step st
InvalidAnswer(st, t, start) == _norm(t) \notin MENU_TEXTS /\ ~ValidAnswer(st, t, start)

\* the texts of a are valid answers of the steps NICKNAME, DOB, ... in order
ValidInOrder(a) ==
    \A k \in 1..Len(a) :
        ValidAnswer(k - 1, a[k], IF Len(a) >= 3 THEN _norm(a[3]) ELSE <<>>)

\* C4: the session moves through the steps in order: a valid answer at a step
\* moves it to the next step; the state changes only to the next step (then a
\* valid answer was accepted), to NICKNAME (a start) or to none (/cancel, or the
\* end after NOTIFY_TIME); the texts accepted since the start are valid answers
\* of the steps passed, in order; and a row of a chat that had none is written
\* only at NOTIFY_TIME, after five accepted answers, with a valid time.
C4_StepOrder ==
    [][\A c \in Chats :
        /\ conv[c] # END => Len(accepted[c]) = conv[c] /\ ValidInOrder(accepted[c])
        /\ \A t \in TextsAt(conv[c]) :
              (/\ conv[c] # END
               /\ ValidAnswer(conv[c], t, StartOf(user_data[c]))
               /\ Message(c, t, {"none"}))
              => conv'[c] = NextStep(conv[c])
        /\ conv'[c] # conv[c] =>
              \/ /\ conv[c] # END /\ conv'[c] = NextStep(conv[c])
                 /\ Len(accepted'[c]) = Len(accepted[c]) + 1
                 /\ ValidInOrder(accepted'[c])
                 /\ SubSeq(accepted'[c], 1, Len(accepted[c])) = accepted[c]
              \/ conv'[c] = O_NICK /\ accepted'[c] = <<>>
              \/ conv'[c] = END /\ accepted'[c] = <<>> /\ users' = users
        /\ (c \notin DOMAIN users /\ c \in DOMAIN users') =>
              /\ conv[c] = O_TIME
              /\ Len(accepted[c]) = 5 /\ ValidInOrder(accepted[c])
              /\ ValidHHMM(users'[c].notify_time)]_vars

\* C5: an input that fails validation is answered with the prompt of the same
\* step (for /set_time: the usage message) and the handler does not raise;
\* so for a date that is no date of the calendar at DOB, PERIOD_START and
\* PERIOD_END, and for a time out of range at NOTIFY_TIME and in /set_time.
C5_InvalidInputReprompted ==
    [][/\ \A t \in TextsLite(conv[1]) :
              (/\ conv[1] # END
               /\ InvalidAnswer(conv[1], t, StartOf(user_data[1]))
               /\ Message(1, t, {"none"}))
              => /\ ~last'.raised
                 /\ last'.chat = 1 /\ last'.reply.step = conv[1] + 1
       /\ \A args \in ArgListsLite :
              (/\ 1 \in DOMAIN users
               /\ Len(args) # 1 \/ ~ValidHHMM(args[1])
               /\ cmd_set_time(1, args, "none"))
              => ~last'.raised /\ last'.reply = M_USAGE_TIME]_vars

\* C6: an input that fails the validation of its step leaves the session at
\* the step and leaves the answers collected and the tables as they are,
\* whether or not the reply can be sent.
C6_InvalidInputChangesNothing ==
    [][\A t \in TextsAt(conv[1]) :
          (/\ conv[1] # END
           /\ InvalidAnswer(conv[1], t, StartOf(user_data[1]))
           /\ Message(1, t, Faults))
          => /\ conv' = conv
             /\ user_data' = user_data
             /\ accepted' = accepted
             /\ users' = users
             /\ period_log' = period_log]_vars

\* C6 at work: at PERIOD_END, with the start 2025-01-05 collected, the end
\* 2025-01-01 has been turned down
C6_Witness ==
    /\ conv[1] = O_END
    /\ last.chat = 1 /\ last.reply = M_END_BEFORE
    /\ user_data[1].period_start = T_0105
    /\ "period_end" \notin DOMAIN user_data[1]
    /\ 1 \notin DOMAIN users

\* the row that the six answers a stand for: the texts stripped, "skip" (in
\* any case) a NULL date, the dates and the number read, not paused
ExpectedRow(a) ==
    [partner_name |-> _norm(a[1]),
     partner_dob |-> IF lower(_norm(a[2])) = T_skip THEN NULL
                     ELSE DateFields(lower(_norm(a[2]))),
     period_start |-> DateFields(_norm(a[3])),
     period_end |-> IF lower(_norm(a[4])) = T_skip THEN NULL
                    ELSE DateFields(lower(_norm(a[4]))),
     cycle_length |-> int(_norm(a[5])),
     notify_time |-> _norm(a[6]),
     tz |-> _default_tz,
     paused |-> FALSE]

\* Scenario B: the answers and the row they stand for
ScenarioB == <<T_Anna, T_skip, T_0101, T_0105, T_28, T_0900>>

ScenarioBRow ==
    [partner_name |-> T_Anna, partner_dob |-> NULL, period_start |-> <<2025, 1, 1>>,
     period_end |-> <<2025, 1, 5>>, cycle_length |-> 28, notify_time |-> T_0900,
     tz |-> _default_tz, paused |-> FALSE]

\* C7: the row that o_time writes is the row of the six answers accepted in
\* this pass (the five accepted since the last start, and the time), not
\* paused: no answer given before a /start or a /cancel is in it; and when
\* onboarding has completed with the answers of Scenario B the row is
\* (Anna, NULL, 2025-01-01, 2025-01-05, 28, 09:00, not paused).
C7_ProfileHoldsThisPass ==
    [][/\ (/\ conv[1] = O_TIME
           /\ 1 \in DOMAIN users'
           /\ 1 \notin DOMAIN users \/ users'[1] # users[1]) =>
              \A t \in TextsAt(O_TIME) : \A f \in Faults :
                  o_time(1, t, f) =>
                      /\ Len(accepted[1]) = 5
                      /\ users'[1] = ExpectedRow(Append(accepted[1], t))
       /\ (last'.chat = 1 /\ last'.reply = M_SAVED) =>
              /\ Len(accepted'[1]) = 6
              /\ users'[1] = ExpectedRow(accepted'[1])
              /\ accepted'[1] = ScenarioB => users'[1] = ScenarioBRow]_vars

\* C7 at work: onboarding has completed with the answers of Scenario B
C7_Witness ==
    /\ conv[1] = END /\ accepted[1] = ScenarioB
    /\ last.chat = 1 /\ last.reply = M_SAVED
    /\ users[1] = ScenarioBRow
    /\ user_data[1] = <<>>

\* C8: no state has the row of chat 1, which onboarding writes, in the users
\* table while the conversation of chat 1 still waits at NOTIFY_TIME, also
\* when db_log_period or the send of the confirmation fails.
C8_SessionDiscardedWithProfile ==
    ~ (1 \in DOMAIN users /\ conv[1] = O_TIME)

\* the replies of the menu actions and of start_onboarding
MenuReplies == {M_TODAY, M_FORECAST, M_SETTINGS, M_ABOUT, M_USE_MENU, M_WELCOME}

\* the "Finish onboarding first" prompt of step st
MenuPromptOf(st) ==
    CASE st = O_NICK -> M_NICK_MENU
      [] st = O_DOB -> M_DOB_MENU
      [] st = O_START -> M_START_MENU
      [] st = O_END -> M_END_MENU
      [] st = O_CYCLE -> M_CYCLE_MENU
      [] st = O_TIME -> M_TIME_MENU

\* C9: while chat 1 has a conversation, a non-command text of it is never
\* answered by a menu action: the reply is a prompt of the step or of the
\* next one, or the confirmation; and a menu label leaves the step and the
\* answers as they are and is answered with the step's prompt.
C9_SessionTakesAllText ==
    [][\A t \in TextsAt(conv[1]) :
          (conv[1] # END /\ Message(1, t, Faults)) =>
              /\ last'.reply \notin MenuReplies
              /\ \/ last'.raised
                 \/ last'.reply.step \in {conv[1] + 1, conv[1] + 2}
                 \/ conv[1] = O_TIME /\ last'.reply = M_SAVED
              /\ _norm(t) \in MENU_TEXTS =>
                    /\ conv' = conv /\ user_data' = user_data /\ accepted' = accepted
                    /\ users' = users
                    /\ last'.raised \/ last'.reply = MenuPromptOf(conv[1])]_vars

\* C9 at work: at DOB the label of the forecast button was sent and answered
\* with the prompt of DOB
C9_Witness ==
    /\ conv[1] = O_DOB
    /\ last.chat = 1 /\ last.reply = M_DOB_MENU
    /\ DOMAIN user_data[1] = {"partner_name"}

\* C10: when a chat with a row sends /re_onboard, its conversation is at
\* NICKNAME afterwards.
C10_ReOnboardStartsSession ==
    [][(1 \in DOMAIN users /\ cmd_re_onboard(1, "none")) => conv'[1] = O_NICK]_vars

\* C25: while chat 1 has a conversation, the onboarding prompt sent to it
\* last is the prompt of the step the conversation is at.
C25_LastPromptIsCurrentStep ==
    conv[1] # END => lastPrompt[1] = conv[1] + 1

----------------------------------------------------------------------------
(* Properties of the commands and the menu, under Spec                      *)

\* an update of chat c that C11 and C12 speak of, but /start: a command that
\* shows a card (/today, /forecast, /about, /settings), a menu button or
\* another text outside a conversation; no call fails
MenuUse(c) ==
    \/ cmd_today(c, "none")
    \/ cmd_forecast(c, "none")
    \/ cmd_about(c, "none")
    \/ cmd_settings(c, "none")
    \/ \E t \in TextsAt(END) : on_menu_text(c, t, "none")

\* C11: when a chat without a row sends a message (a command that shows a
\* card, a menu button or another text), its conversation is at NICKNAME
\* afterwards.
C11_AnyMessageStartsSession ==
    [][(1 \notin DOMAIN users /\ conv[1] = END /\ (MenuUse(1) \/ cmd_start(1, "none")))
          => conv'[1] = O_NICK]_vars

\* C12: for a chat with a row and without a conversation, the menu buttons,
\* other text, /start, /today, /forecast, /about and /settings start no
\* conversation and leave the users table as it is, whether or not the calls
\* they make fail.
C12_MenuUseKeepsProfile ==
    [][(/\ 1 \in DOMAIN users
        /\ conv[1] = END
        /\ \/ MenuUse(1)
           \/ \E f \in Faults : cmd_start(1, f)
           \/ \E f \in {"fetch", "send"} :
                 \/ cmd_today(1, f)
                 \/ \E t \in TextsAt(END) : on_menu_text(1, t, f))
          => /\ conv'[1] = END
             /\ users' = users
             /\ accepted' = accepted]_vars

\* C12 at work: chat 1, onboarded and without a conversation, has sent /start
\* or pressed the Today button and was shown the TODAY card
C12_Witness ==
    /\ 1 \in DOMAIN users /\ conv[1] = END
    /\ last.chat = 1 /\ last.reply = M_TODAY
    /\ user_data[1] = <<>>

----------------------------------------------------------------------------
(* Properties of the cycle arithmetic, under SpecRender                     *)

InRange(d, r) == r[1] <= d /\ d <= r[2]

\* the phases whose range holds day d
PhasesOf(d, bounds) == {i \in 1 .. Len(PhaseOrder) : InRange(d, bounds[PhaseOrder[i]])}

\* the period length the profile rendered states: the days from period_start
\* (the first of January) to period_end, both counted; 5 without period_end
StatedPeriodLength == IF calc.period_end = None THEN 5 ELSE DateFields(calc.period_end)[3]

Clamped(p) == IF p < 3 THEN 3 ELSE IF p > 8 THEN 8 ELSE p

\* today - period_start, in days
Delta == toordinal(calc.today) - toordinal(<<2025, 1, 1>>)

\* C13: for a cycle length in 21..35 and a period length in 3..8, every day
\* of 1..cycle length lies in the range of exactly one phase.
C13_PhasesPartitionCycle ==
    (calc.pc \in {"period", "day"} /\ calc.period_len \in 3 .. 8)
        => \A d \in 1 .. calc.cycle_length : Cardinality(PhasesOf(d, calc.bounds)) = 1

\* C14: for a cycle length in 21..35, any period length from 1 on and every
\* day d of 1..cycle length, _phase_for_cycle_day finds a phase in the loop
\* (not by the fallback after it) and d lies in the range of that phase.
C14_PhaseLookupTotal ==
    calc.pc \in {"period", "day"}
        => /\ \A d \in 1 .. calc.cycle_length :
                /\ PhaseFrom(1, d, calc.bounds) # "fallback"
                /\ _phase_for_cycle_day(d, calc.bounds) \in {"menstrual", "follicular", "ovulatory", "luteal"}
                /\ InRange(d, calc.bounds[_phase_for_cycle_day(d, calc.bounds)])
           /\ calc.pc = "day"
                => /\ calc.phase = _phase_for_cycle_day(calc.day, calc.bounds)
                   /\ InRange(calc.day, calc.bounds[calc.phase])

\* C14 at work: a period of 9 days, clamped to 8, in the shortest cycle, and
\* the day rendered is the first one after the period
C14_Witness ==
    /\ calc.pc = "day"
    /\ calc.period_len = 9 /\ calc.cycle_length = 21
    /\ calc.day = 9 /\ calc.phase = "follicular"

\* C15: the menstrual range is 1..P for the stated period length clamped to
\* 3..8; the ovulatory range has 2 or 3 days, lies within P+1..L and holds
\* day max(10, L-14); with L = 28 and P = 5, day 1 is menstrual and day 15
\* ovulatory.
C15_MenstrualAndOvulatoryRanges ==
    calc.pc \in {"period", "day"}
        => LET L == calc.cycle_length
               P == Clamped(StatedPeriodLength)
               ov == calc.bounds.ovulatory
           IN  /\ calc.bounds.menstrual = <<1, P>>
               /\ ov[2] - ov[1] + 1 \in {2, 3}
               /\ P + 1 <= ov[1] /\ ov[2] <= L
               /\ InRange(IF L - 14 > 10 THEN L - 14 ELSE 10, ov)
               /\ (L = 28 /\ P = 5)
                    => /\ _phase_for_cycle_day(1, calc.bounds) = "menstrual"
                       /\ _phase_for_cycle_day(15, calc.bounds) = "ovulatory"
                       /\ (calc.pc = "day" /\ calc.today = <<2025, 1, 1>>)
                            => (calc.day = 1 /\ calc.phase = "menstrual")
                       /\ (calc.pc = "day" /\ calc.today = <<2025, 1, 15>>)
                            => (calc.day = 15 /\ calc.phase = "ovulatory")

\* C15 at work: the profile of 28 and 5 days rendered on 2025-01-15
C15_Witness ==
    /\ calc.pc = "day"
    /\ calc.cycle_length = 28 /\ calc.period_end = isoformat(<<2025, 1, 5>>)
    /\ calc.today = <<2025, 1, 15>>
    /\ calc.phase = "ovulatory"

\* C16: the cycle day is r + 1 for the one r in 0..L-1 with
\* today - start = k*L + r, k an integer; so it lies in 1..L, before start
\* too, and is 1 whenever today - start is a multiple of L.
C16_CycleDayIsFloorMod ==
    calc.pc = "day"
        => LET L == calc.cycle_length
           IN  /\ calc.day \in 1 .. L
               /\ \E k \in (0 - 4) .. 4 : Delta = k * L + (calc.day - 1)
               /\ \A k \in (0 - 4) .. 4 : Delta = k * L => calc.day = 1

\* C16 at work: rendered two cycles before period_start, and on a day
\* before period_start that is not a multiple of the cycle away
C16_Witness ==
    /\ calc.pc = "day"
    /\ \/ Delta = 0 - 2 * calc.cycle_length /\ calc.day = 1
       \/ Delta = 0 - 1 /\ calc.day = calc.cycle_length

----------------------------------------------------------------------------
(* Properties of the writes to the users table, under SpecRace              *)

\* C20: no write to a row is lost.  When the upsert of a settings command
\* is made, the row it leaves is the row as it is stored at that moment,
\* with every change completed before, and the command's field set in it;
\* the rows of the other chats stay; and no step of the notification loop
\* writes a row.
C20_NoProfileWriteLost ==
    [][/\ (held # NoHeld /\ held' = NoHeld)
            => users' = [users EXCEPT ![held.chat_id] =
                            RowOf(Changed(db_fetch_user(users, held.chat_id), held.kind, held.args))]
       /\ (npc' # npc \/ rows' # rows) => users' = users]_vars

\* C20 at work: /set_cycle 35 of chat 1 waits for its upsert while the loop
\* has chat 1's profile at hand for the ping; an earlier /set_time of chat 1
\* is complete
C20_Witness ==
    /\ held # NoHeld /\ held.chat_id = 1 /\ held.kind = "set_cycle"
    /\ npc = "send" /\ fetched.chat_id = 1
    /\ last.chat = 1 /\ last.reply = M_UPDATED
    /\ users[1].cycle_length = 28

----------------------------------------------------------------------------
(* Properties of render_forecast, under SpecRender                          *)

\* the date i days after date t: the one date of t's month or the next
\* whose ordinal is i more than t's
DateAfter(t, i) ==
    CHOOSE d \in ({<<t[1], t[2]>>, IF t[2] = 12 THEN <<t[1] + 1, 1>> ELSE <<t[1], t[2] + 1>>}
                    \X (1 .. 31)) :
        /\ d[2] <= DaysInMonth(d[1][1], d[1][2])
        /\ toordinal(<<d[1][1], d[1][2], d[2]>>) = toordinal(t) + i

\* C21: the forecast holds one line per day of today .. today+days-1, in
\* order, each with that date's cycle day and phase; its change points are,
\* in order, the days of the window after the first whose phase differs from
\* that of the day before; and it says that there is no switch exactly when
\* there is no such day.
C21_ForecastLinesAndChangePoints ==
    calc.pc = "forecast"
        => LET f == calc.forecast
               W == 0 .. calc.days - 1
               bounds == _phase_boundaries(calc.cycle_length,
                             _compute_period_length(calc.period_start, calc.period_end))
               date == [i \in W |-> LET d == DateAfter(calc.today, i)
                                    IN  <<d[1][1], d[1][2], d[2]>>]
               cd == [i \in W |-> _cycle_day_for(date[i], fromisoformat(calc.period_start),
                                                 calc.cycle_length)]
               ph == [i \in W |-> _phase_for_cycle_day(cd[i], bounds)]
               Switches == {i \in W \ {0} : ph[i] # ph[i - 1]}
           IN  /\ Len(f.lines) = calc.days
               /\ \A i \in W : f.lines[i + 1] = <<isoformat(date[i]), cd[i], ph[i]>>
               /\ Len(f.change_points) = Cardinality(Switches)
               /\ \A i \in Switches :
                      f.change_points[Cardinality({j \in Switches : j < i}) + 1] =
                          <<isoformat(date[i]), ph[i]>>
               /\ (f.closing = NoSwitch) <=> (Switches = {})

\* C21 at work: a forecast of 7 days that runs over the end of the cycle and
\* lists two change points, the first of them the switch from luteal to
\* menstrual
C21_Witness ==
    /\ calc.pc = "forecast" /\ calc.days = 7
    /\ Len(calc.forecast.change_points) = 2
    /\ calc.forecast.change_points[1][2] = "menstrual"
    /\ calc.forecast.lines[1][3] = "luteal"

----------------------------------------------------------------------------
(* Properties of the settings commands, under SpecSettings                  *)

\* the fields in which two rows differ
FieldsChanged(old, new) == {k \in DOMAIN old : old[k] # new[k]}

\* what a settings command says when it turns its words down
Rejections ==
    {M_USAGE_TIME, M_USAGE_CYCLE, M_CYCLE_RANGE, M_USAGE_PERIOD, M_DATES_FORMAT,
     M_END_BEFORE_START}

\* C26: an update of chat 1, which has a row, that changes the users table
\* changes in chat 1's row only the fields of the settings command that
\* answers: paused for /pause and /resume, notify_time or cycle_length for
\* /set_time and /set_cycle, period_start and period_end for /update_period
\* (also when the command raises after its upsert); the rows of the other
\* chats, the conversations and user_data stay; and a command that turns
\* its words down leaves the table and the period log as they are.
C26_SettingsChangeOnlyTheirFields ==
    [][(1 \in DOMAIN users /\ last'.chat = 1)
          => /\ last'.reply \in Rejections
                  => (users' = users /\ period_log' = period_log)
             /\ users' # users
                  => /\ DOMAIN users' = DOMAIN users
                     /\ \A c \in DOMAIN users : c # 1 => users'[c] = users[c]
                     /\ conv' = conv
                     /\ user_data' = user_data
                     /\ LET changed == FieldsChanged(users[1], users'[1])
                        IN  IF last'.raised THEN changed \subseteq {"period_start", "period_end"}
                            ELSE IF last'.reply \in {M_PAUSED, M_RESUMED}
                            THEN /\ changed = {"paused"}
                                 /\ users'[1].paused = (last'.reply = M_PAUSED)
                            ELSE IF last'.reply = M_UPDATED
                            THEN changed = {"notify_time"} \/ changed = {"cycle_length"}
                            ELSE /\ last'.reply = M_PERIOD_UPDATED
                                 /\ changed \subseteq {"period_start", "period_end"}]_vars

\* C26 at work: chat 1, with a cycle of 35 days and a period end stored, has
\* paused and resumed, and chat 2 is paused
C26_Witness ==
    /\ 1 \in DOMAIN users
    /\ users[1].cycle_length = 35 /\ users[1].period_end = <<2025, 1, 5>>
    /\ ~users[1].paused
    /\ last.chat = 1 /\ last.reply = M_RESUMED
    /\ users[2].paused

----------------------------------------------------------------------------
(* Properties of /cancel, under Spec                                        *)

====
